---- MODULE Spec2Model ----
(***************************************************************************)
(* A model of splitter: the transaction accumulator (src/transaction.rs),   *)
(* the incremental command parser (src/tui/parser.rs), the insertion into  *)
(* the ledger file (src/ledger.rs) and the change loop of the controller   *)
(* (src/tui/mod.rs).                                                       *)
(*                                                                         *)
(* Decimal magnitudes are integers counting units of the decimal type's    *)
(* resolution (10^-28, the largest scale of rust_decimal): the magnitude n *)
(* stands for n * 10^-28.  Addition is exact on them; halving an odd       *)
(* number of units is not representable and is rounded to a neighbour.     *)
(* Where a transaction is written as text (the ledger file), its amounts   *)
(* are whole numbers and its magnitudes count ones.                        *)
(* Strings are ordered as Rust orders them (byte-wise); StrOrder lists the *)
(* names the model uses in that order.                                     *)
(***************************************************************************)
EXTENDS Integers, Sequences, FiniteSets, TLC

VARIABLES
    tx,         \* the Transaction under composition: [date, description, changes]
    prev,       \* tx.changes before the last operation
    last,       \* the last operation applied to tx
    out,        \* the text last written by Display::fmt (<<>>: nothing rendered yet)
    iter,       \* the HashMap iteration order fmt met when it wrote out
    log,        \* the SimpleChange operations applied so far, in arrival order
    pc,         \* the position in the split-and-reverse scenario
    parser,     \* the Parser: [next, op_type, accounts, currency, amount]
    pprev,      \* the Parser before the last parse_word call
    word,       \* the word of the last parse_word call (<<>>: none yet)
    result,     \* what the last parse_word call returned: "Ok", or the error
    accepted,   \* the words parse_word accepted since Parser::new
    path,       \* the values of parser.next since Parser::new
    file,       \* the bytes of the ledger file, a sequence of characters
    tmp,        \* the temporary file: None, or Some(its bytes)
    wpc,        \* the position of write_transaction ("idle": not running)
    wtx,        \* the Transaction write_transaction was given
    orig,       \* the bytes of the ledger file when write_transaction was called
    oracle,     \* how the run of the ledger tool ended
    date_ends,  \* the vector get_date_end_positions returned
    buf,        \* the bytes write_transaction read from the ledger file
    mid,        \* the index at which write_transaction splits buf
    calls,      \* the number of calls of write_transaction so far
    wres,       \* what write_transaction returned: "Ok", "Err", "panic"
    inserted,   \* the transactions written so far, in arrival order
    current_tx, \* TUIController.current_tx: None, or Some(Transaction)
    tpc,        \* the controller: at the "prompt", or "writing" the transaction
    line,       \* the words of the line the controller handled last
    tx_before,  \* current_tx before that line
    rejects,    \* the number of words of that line parse_word rejected
    nlines,     \* the number of change lines since the header
    listing,    \* the (date, end offset) pairs the fold runs over
    collected,  \* the accumulator of the fold
    taken       \* the number of pairs the fold has taken

txVars == <<tx, prev, last, out, iter, log, pc>>

parserVars == <<parser, pprev, word, result, accepted, path>>

ledgerVars == <<file, tmp, wpc, wtx, orig, oracle, date_ends, buf, mid, calls, wres, inserted>>

tuiVars == <<current_tx, tpc, line, tx_before, rejects, nlines>>

foldVars == <<listing, collected, taken>>

vars == <<tx, prev, last, out, iter, log, pc, parser, pprev, word, result, accepted, path,
          file, tmp, wpc, wtx, orig, oracle, date_ends, buf, mid, calls, wres, inserted,
          current_tx, tpc, line, tx_before, rejects, nlines,
          listing, collected, taken>>

\* The variables outside the transaction, those outside the parser and those
\* outside the ledger file.
NotTx == <<parserVars, ledgerVars, tuiVars, foldVars>>

NotParser == <<txVars, ledgerVars, tuiVars, foldVars>>

NotLedger == <<txVars, parserVars, tuiVars, foldVars>>

----------------------------------------------------------------------------
(* Bounds and input sets                                                   *)

\* Largest stored magnitude, in resolution units.
MaxMag == 1

\* Longest sequence of SimpleChange operations whose permutations are compared.
MaxOps == 3

Accounts == {"Assets:Cash", "Expenses:Food"}

MoreAccounts == Accounts \cup {"Debts:Peter"}

Commodities == {"CZK", "EUR"}

Magnitudes == (0 - MaxMag)..MaxMag

\* The amounts the operations of SpecTx are given.
AddMagnitudes == {0 - 1, 1}

SplitMagnitudes == {1, 2}

StrOrder ==
    <<"$", "A", "Assets:Cash", "B", "CZK", "D:P", "Debts:Peter", "EUR", "Exp",
      "Expenses:Food">>

----------------------------------------------------------------------------
(* Strings and amounts                                                     *)

\* Position of s in the byte-wise order of the names of the model.
StrRank(s) == CHOOSE i \in 1..Len(StrOrder) : StrOrder[i] = s

\* str::cmp, Less.
StrLess(s, t) == StrRank(s) < StrRank(t)

\* Amount(pub String, pub Decimal): <<commodity, magnitude>>.
Amount(commodity, magnitude) == <<commodity, magnitude>>

\* derive(PartialOrd, Ord) on Amount: by commodity, then by magnitude.
AmountLess(a, b) ==
    \/ StrLess(a[1], b[1])
    \/ a[1] = b[1] /\ a[2] < b[2]

\* One step of a stable sort: x goes after every element not greater than it.
RECURSIVE InsertAmount(_, _)
InsertAmount(v, x) ==
    IF v = <<>> THEN <<x>>
    ELSE IF AmountLess(x, Head(v)) THEN <<x>> \o v
    ELSE <<Head(v)>> \o InsertAmount(Tail(v), x)

\* Vec<Amount>::sort().
RECURSIVE SortAmounts(_)
SortAmounts(v) ==
    IF v = <<>> THEN <<>>
    ELSE InsertAmount(SortAmounts(SubSeq(v, 1, Len(v) - 1)), v[Len(v)])

\* v.iter().position(|am| am.0 == commodity): the first index, 0 for None.
Position(v, commodity) ==
    IF \E i \in 1..Len(v) : v[i][1] = commodity
    THEN CHOOSE i \in 1..Len(v) :
            /\ v[i][1] = commodity
            /\ \A j \in 1..(i - 1) : v[j][1] # commodity
    ELSE 0

\* amount.1 / dec!(2): the outcomes of halving m units.  An even count halves
\* exactly; the half of an odd count lies below the resolution and the
\* division rounds it to one of its two neighbours.
Div2(m) ==
    IF m % 2 = 0 THEN {m \div 2}
    ELSE {(m - 1) \div 2, (m + 1) \div 2}

----------------------------------------------------------------------------
(* Transaction (src/transaction.rs)                                        *)

\* HashMap::new().
EmptyChanges == [a \in {} |-> <<>>]

\* Transaction::new.
Transaction_new(date, description) ==
    [date |-> date, description |-> description, changes |-> EmptyChanges]

\* add_change that pushes the amount without sorting the vector again.
add_change_unsorted(changes, account, amount) ==
    IF account \in DOMAIN changes
    THEN LET v == changes[account]
             pos == Position(v, amount[1])
         IN IF pos # 0
            THEN [changes EXCEPT
                    ![account] = [v EXCEPT ![pos] = Amount(v[pos][1], v[pos][2] + amount[2])]]
            ELSE [changes EXCEPT ![account] = Append(v, amount)]
    ELSE [a \in DOMAIN changes \cup {account} |->
            IF a = account THEN <<amount>> ELSE changes[a]]

\* add_change that never looks for the commodity: it always pushes and sorts.
add_change_duplicate(changes, account, amount) ==
    IF account \in DOMAIN changes
    THEN [changes EXCEPT ![account] = SortAmounts(Append(changes[account], amount))]
    ELSE [a \in DOMAIN changes \cup {account} |->
            IF a = account THEN <<amount>> ELSE changes[a]]

\* add_change that stores the new magnitude over the old one.
add_change_overwrite(changes, account, amount) ==
    IF account \in DOMAIN changes
    THEN LET v == changes[account]
             pos == Position(v, amount[1])
         IN IF pos # 0
            THEN [changes EXCEPT ![account] = [v EXCEPT ![pos] = amount]]
            ELSE [changes EXCEPT ![account] = SortAmounts(Append(v, amount))]
    ELSE [a \in DOMAIN changes \cup {account} |->
            IF a = account THEN <<amount>> ELSE changes[a]]

\* Transaction::add_change, on the changes map.
add_change(changes, account, amount) ==
    IF account \in DOMAIN changes
    THEN LET v == changes[account]
             pos == Position(v, amount[1])
         IN IF pos # 0
            THEN [changes EXCEPT
                    ![account] = [v EXCEPT ![pos] = Amount(v[pos][1], v[pos][2] + amount[2])]]
            ELSE [changes EXCEPT ![account] = SortAmounts(Append(v, amount))]
    ELSE [a \in DOMAIN changes \cup {account} |->
            IF a = account THEN <<amount>> ELSE changes[a]]

\* add_split_change that adds the whole amount to each account.
add_split_change_whole(changes, account, split_account, amount, half) ==
    add_change(add_change(changes, account, amount), split_account, amount)

\* Transaction::add_split_change, given the half the division produced.
add_split_change(changes, account, split_account, amount, half) ==
    add_change(add_change(changes, account, Amount(amount[1], half)),
               split_account, Amount(amount[1], half))

\* The commodities with a posting in some account.
CommoditiesOf(changes) ==
    UNION {{changes[a][i][1] : i \in 1..Len(changes[a])} : a \in DOMAIN changes}

\* The sum of the magnitudes of commodity c over the accounts of S.
RECURSIVE SumOver(_, _, _)
SumOver(changes, S, c) ==
    IF S = {} THEN 0
    ELSE LET a == CHOOSE x \in S : TRUE
             pos == Position(changes[a], c)
         IN (IF pos = 0 THEN 0 ELSE changes[a][pos][2])
            + SumOver(changes, S \ {a}, c)

\* The sorted vector of the amounts of the set S of amounts.
RECURSIVE SortedSeq(_)
SortedSeq(S) ==
    IF S = {} THEN <<>>
    ELSE LET m == CHOOSE x \in S : \A y \in S : x = y \/ AmountLess(x, y)
         IN <<m>> \o SortedSeq(S \ {m})

\* Transaction::balance.
balance(changes) ==
    SortedSeq({Amount(c, SumOver(changes, DOMAIN changes, c)) : c \in CommoditiesOf(changes)})

RECURSIVE finalize_loop(_, _, _)

\* The loop of finalize adding the balance itself, not its negation.
finalize_loop_same_sign(changes, account, b) ==
    IF b = <<>> THEN changes
    ELSE finalize_loop(add_change(changes, account, Head(b)), account, Tail(b))

\* The loop of Transaction::finalize over the balance vector b.
finalize_loop(changes, account, b) ==
    IF b = <<>> THEN changes
    ELSE finalize_loop(add_change(changes, account, Amount(Head(b)[1], 0 - Head(b)[2])),
                       account, Tail(b))

\* Transaction::finalize.
finalize(changes, account) == finalize_loop(changes, account, balance(changes))

\* Transaction::amounts, the accounts met in the order the HashMap yields
\* them: the (account, amount) pairs, each account's in its vector's order.
RECURSIVE amounts(_, _)
amounts(changes, order) ==
    IF order = <<>> THEN <<>>
    ELSE [i \in 1..Len(changes[Head(order)]) |-> <<Head(order), changes[Head(order)][i]>>]
         \o amounts(changes, Tail(order))

\* The partition predicate of fmt with > in place of >=.
IsCredit_positive(amount_triple) == amount_triple[2][2] > 0

\* The partition predicate of fmt: (amount_triple.1).1 >= dec!(0).
IsCredit(amount_triple) == amount_triple[2][2] >= 0

\* One step of sort_by_key(|amount_triple| amount_triple.0), a stable sort: x
\* goes after every pair whose account is not greater than its own.
RECURSIVE InsertByAccount(_, _)
InsertByAccount(v, x) ==
    IF v = <<>> THEN <<x>>
    ELSE IF StrLess(x[1], Head(v)[1]) THEN <<x>> \o v
    ELSE <<Head(v)>> \o InsertByAccount(Tail(v), x)

\* sort_by_key(|amount_triple| amount_triple.0).
RECURSIVE sort_by_key(_)
sort_by_key(v) ==
    IF v = <<>> THEN <<>>
    ELSE InsertByAccount(sort_by_key(SubSeq(v, 1, Len(v) - 1)), v[Len(v)])

\* writeln!(f, "{} {}", date, description): the header line.
HeaderLine(t) == <<"header", t.date, t.description>>

\* writeln!(f, "\t{}\t{} {}", account, amount.0, amount.1): a posting line.
PostingLine(amount_triple) ==
    <<"posting", amount_triple[1], amount_triple[2][1], amount_triple[2][2]>>

\* impl fmt::Display for Transaction: the lines written, the HashMap yielding
\* its accounts in the given order.
fmt(t, order) ==
    LET all == amounts(t.changes, order)
        credits == sort_by_key(SelectSeq(all, IsCredit))
        debits == sort_by_key(SelectSeq(all, LAMBDA x : ~IsCredit(x)))
    IN <<HeaderLine(t)>>
       \o [i \in 1..Len(credits) |-> PostingLine(credits[i])]
       \o [i \in 1..Len(debits) |-> PostingLine(debits[i])]

\* The orders in which a HashMap with the key set S can yield its keys.
IterationOrders(S) ==
    {q \in [1..Cardinality(S) -> S] : \A i, j \in 1..Cardinality(S) : q[i] = q[j] => i = j}

\* Every stored magnitude is within the modelled range.
InRange(changes) ==
    \A a \in DOMAIN changes : \A i \in 1..Len(changes[a]) :
        changes[a][i][2] \in Magnitudes

NoOp == [op |-> "none", account |-> "", account2 |-> "", amount |-> Amount("", 0), half |-> 0]

----------------------------------------------------------------------------
(* Command parser (src/tui/parser.rs)                                      *)
(* A word is a sequence of characters.  Option values are sequences: <<>>  *)
(* is None and <<x>> is Some(x).                                           *)

\* The characters of class \p{L} among those of the model.
Letters == {"a", "s", "f", "x", "d", "e", "b", "t", "c", "h", "p",
            "E", "D", "P", "C", "Z", "K"}

\* The ASCII digits, at the index of their value plus one.
DigitChars == <<"0", "1", "2", "3", "4", "5", "6", "7", "8", "9">>

Digits == {DigitChars[i] : i \in 1..Len(DigitChars)}

\* The words fed to the parser: the three operation codes and the words of
\* the tests (x, 123, 1checking, Expenses, Debts:Peter, the currency sign,
\* CZK, 1a2b, 12.30), shortened, with a lower-case account name and a
\* negative amount.
Words ==
    {<<"a">>, <<"s">>, <<"f">>, <<"x">>,
     <<"1", "2", "3">>, <<"1", "c", "h">>,
     <<"E", "x", "p">>, <<"D", ":", "P">>, <<"d", "e", "b", "t">>,
     <<"$">>, <<"C", "Z", "K">>, <<"1", "a", "2", "b">>,
     <<"1", "2", ".", "3", "0">>, <<"-", "5">>}

None == <<>>

Some(x) == <<x>>

\* OperationType::parse.
OperationType_parse(w) ==
    CASE w = <<"a">> -> Some("AddSimple")
      [] w = <<"s">> -> Some("AddSplit")
      [] w = <<"f">> -> Some("Finalize")
      [] OTHER -> None

\* ACC_RE, "^[\p{L}&&[^:digit:]][\p{L}[:digit:]:]*$": the first character is a
\* letter outside the negated set [^:digit:], whose members are the
\* characters ':', 'd', 'i', 'g', 't'; each later one is a letter, an ASCII
\* digit or ':'.
ACC_RE_is_match(w) ==
    /\ Len(w) >= 1
    /\ w[1] \in Letters
    /\ w[1] \notin {":", "d", "i", "g", "t"}
    /\ \A i \in 2..Len(w) : w[i] \in Letters \cup Digits \cup {":"}

\* CURR_RE matching every word that holds a character other than a digit.
CURR_RE_some_non_digit(w) ==
    /\ Len(w) >= 1
    /\ \E i \in 1..Len(w) : w[i] \notin Digits

\* CURR_RE, "^[^0-9]+$".
CURR_RE_is_match(w) ==
    /\ Len(w) >= 1
    /\ \A i \in 1..Len(w) : w[i] \notin Digits

\* The value of the digit character ch.
DigitValue(ch) == (CHOOSE i \in 1..Len(DigitChars) : DigitChars[i] = ch) - 1

\* The number the digits of w write, the other characters skipped.
RECURSIVE Mantissa(_)
Mantissa(w) ==
    IF w = <<>> THEN 0
    ELSE IF w[Len(w)] \in Digits
    THEN 10 * Mantissa(SubSeq(w, 1, Len(w) - 1)) + DigitValue(w[Len(w)])
    ELSE Mantissa(SubSeq(w, 1, Len(w) - 1))

\* Decimal::from_str: an optional sign, then digits with at most one point
\* among them.  The Decimal is [m |-> signed mantissa, e |-> scale]; None is
\* the parse error.
Decimal_from_str(w) ==
    LET signed == Len(w) >= 1 /\ w[1] \in {"-", "+"}
        body == IF signed THEN Tail(w) ELSE w
        points == {i \in 1..Len(body) : body[i] = "."}
    IN IF /\ \A i \in 1..Len(body) : body[i] \in Digits \cup {"."}
          /\ \E i \in 1..Len(body) : body[i] \in Digits
          /\ Cardinality(points) <= 1
       THEN Some([m |-> IF signed /\ w[1] = "-" THEN 0 - Mantissa(body) ELSE Mantissa(body),
                  e |-> IF points = {} THEN 0
                        ELSE Len(body) - (CHOOSE i \in points : TRUE)])
       ELSE None

\* Parser::new.
Parser_new ==
    [next |-> "Operation", op_type |-> None, accounts |-> <<>>,
     currency |-> None, amount |-> None]

\* What a parse function returns: the parser it leaves, and Ok(()) or Err.
Ok(p) == [p |-> p, res |-> "Ok"]

Err(p, msg) == [p |-> p, res |-> msg]

\* Parser::parse_op_type.
parse_op_type(p, w) ==
    IF OperationType_parse(w) = None
    THEN Err(p, "Invalid operation type")
    ELSE Ok([p EXCEPT !.op_type = OperationType_parse(w), !.next = "Account"])

\* parse_account pushing the word before it is matched.
parse_account_push_first(p, w) ==
    LET q == [p EXCEPT !.accounts = Append(p.accounts, w)]
    IN IF ~ACC_RE_is_match(w)
       THEN Err(q, "Account name contains invalid character")
       ELSE IF q.op_type = Some("AddSplit") /\ Len(q.accounts) = 1
            THEN Ok([q EXCEPT !.next = "Account"])
            ELSE IF q.op_type = Some("Finalize")
                 THEN Ok([q EXCEPT !.next = "EOL"])
                 ELSE Ok([q EXCEPT !.next = "Currency"])

\* parse_account without the branch that asks for a split's second account.
parse_account_one_account(p, w) ==
    IF ~ACC_RE_is_match(w)
    THEN Err(p, "Account name contains invalid character")
    ELSE LET q == [p EXCEPT !.accounts = Append(p.accounts, w)]
         IN IF q.op_type = Some("Finalize")
            THEN Ok([q EXCEPT !.next = "EOL"])
            ELSE Ok([q EXCEPT !.next = "Currency"])

\* Parser::parse_account.
parse_account(p, w) ==
    IF ~ACC_RE_is_match(w)
    THEN Err(p, "Account name contains invalid character")
    ELSE LET q == [p EXCEPT !.accounts = Append(p.accounts, w)]
         IN IF q.op_type = Some("AddSplit") /\ Len(q.accounts) = 1
            THEN Ok([q EXCEPT !.next = "Account"])
            ELSE IF q.op_type = Some("Finalize")
                 THEN Ok([q EXCEPT !.next = "EOL"])
                 ELSE Ok([q EXCEPT !.next = "Currency"])

\* Parser::parse_currency.
parse_currency(p, w) ==
    IF CURR_RE_is_match(w)
    THEN Ok([p EXCEPT !.currency = Some(w), !.next = "Amount"])
    ELSE Err(p, "Currency contains invalid characters")

\* parse_amount that moves to EOL without storing the amount.
parse_amount_not_stored(p, w) ==
    IF Decimal_from_str(w) = None
    THEN Err(p, "Invalid decimal")
    ELSE Ok([p EXCEPT !.next = "EOL"])

\* Parser::parse_amount.
parse_amount(p, w) ==
    IF Decimal_from_str(w) = None
    THEN Err(p, "Invalid decimal")
    ELSE Ok([p EXCEPT !.amount = Decimal_from_str(w), !.next = "EOL"])

\* parse_word that takes a word at the end of the line for a new operation code.
parse_word_restarts(p, w) ==
    CASE p.next = "Operation" -> parse_op_type(p, w)
      [] p.next = "Account" -> parse_account(p, w)
      [] p.next = "Currency" -> parse_currency(p, w)
      [] p.next = "Amount" -> parse_amount(p, w)
      [] p.next = "EOL" -> parse_op_type(p, w)

\* Parser::parse_word.
parse_word(p, w) ==
    CASE p.next = "Operation" -> parse_op_type(p, w)
      [] p.next = "Account" -> parse_account(p, w)
      [] p.next = "Currency" -> parse_currency(p, w)
      [] p.next = "Amount" -> parse_amount(p, w)
      [] p.next = "EOL" -> Err(p, "Unexpected input at end of line")

\* The Operation: its variant, its accounts, and Some(Amount) or None.
Operation(type, accts, amt) == [type |-> type, accounts |-> accts, amount |-> amt]

\* What a call of operation() comes to: None, Some(Operation), or a panic.
NoOperation == [kind |-> "None", op |-> Operation("", <<>>, None)]

Panic == [kind |-> "panic", op |-> Operation("", <<>>, None)]

SomeOperation(op) == [kind |-> "Some", op |-> op]

\* Parser::operation.  unwrap() of None and an index past the end panic.
operation(p) ==
    IF p.next # "EOL" THEN NoOperation
    ELSE IF p.op_type = None THEN Panic
    ELSE CASE p.op_type = Some("AddSimple") ->
                IF Len(p.accounts) < 1 \/ p.currency = None \/ p.amount = None
                THEN Panic
                ELSE SomeOperation(Operation("AddSimpleChange", <<p.accounts[1]>>,
                        Some(Amount(p.currency[1], p.amount[1]))))
           [] p.op_type = Some("AddSplit") ->
                IF Len(p.accounts) < 2 \/ p.currency = None \/ p.amount = None
                THEN Panic
                ELSE SomeOperation(Operation("AddSplitChange",
                        <<p.accounts[1], p.accounts[2]>>,
                        Some(Amount(p.currency[1], p.amount[1]))))
           [] p.op_type = Some("Finalize") ->
                IF Len(p.accounts) < 1
                THEN Panic
                ELSE SomeOperation(Operation("Finalize", <<p.accounts[1]>>, None))

\* A parser just made, no word fed yet.
ParserFresh ==
    /\ parser = Parser_new
    /\ pprev = Parser_new
    /\ word = <<>>
    /\ result = "none"
    /\ accepted = <<>>
    /\ path = <<"Operation">>

\* TUIController::new: no transaction, the prompt awaits the first line.
TUINew ==
    /\ current_tx = <<>>
    /\ tpc = "prompt"
    /\ line = <<>>
    /\ tx_before = <<>>
    /\ rejects = 0
    /\ nlines = 0

\* No write_transaction has run; the ledger file is empty.
LedgerIdle ==
    /\ file = <<>>
    /\ tmp = <<>>
    /\ wpc = "idle"
    /\ wtx = <<>>
    /\ orig = <<>>
    /\ oracle = "none"
    /\ date_ends = <<>>
    /\ buf = <<>>
    /\ mid = 0
    /\ calls = 0
    /\ wres = "none"
    /\ inserted = <<>>

\* No fold is under way.
FoldIdle ==
    /\ listing = <<>>
    /\ collected = <<>>
    /\ taken = 0

----------------------------------------------------------------------------
(* Operations on the transaction (Operation::add_to_transation)            *)

\* The operation runs when its result stays in the modelled range; it is
\* recorded in last, the map it met in prev.
Apply(new, op) ==
    /\ tx' = [tx EXCEPT !.changes = new]
    /\ InRange(tx'.changes)
    /\ prev' = tx.changes
    /\ last' = op
    /\ UNCHANGED <<out, iter, log, pc>>
    /\ UNCHANGED NotTx

\* Operation::AddSimpleChange.
AddSimpleChange ==
    \E account \in Accounts, c \in Commodities, m \in AddMagnitudes :
        Apply(add_change(tx.changes, account, Amount(c, m)),
              [op |-> "add", account |-> account, account2 |-> "",
               amount |-> Amount(c, m), half |-> 0])

\* Operation::AddSplitChange.
AddSplitChange ==
    \E account \in Accounts, split_account \in Accounts,
       c \in Commodities, m \in SplitMagnitudes :
        \E half \in Div2(m) :
            Apply(add_split_change(tx.changes, account, split_account, Amount(c, m), half),
                  [op |-> "split", account |-> account, account2 |-> split_account,
                   amount |-> Amount(c, m), half |-> half])

\* Operation::Finalize.
Finalize ==
    \E account \in Accounts :
        Apply(finalize(tx.changes, account),
              [op |-> "finalize", account |-> account, account2 |-> "",
               amount |-> Amount("", 0), half |-> 0])

InitTx ==
    /\ tx = Transaction_new("2020-01-10", "Test transaction")
    /\ prev = EmptyChanges
    /\ last = NoOp
    /\ out = <<>>
    /\ iter = <<>>
    /\ log = <<>>
    /\ pc = 0
    /\ ParserFresh
    /\ LedgerIdle
    /\ TUINew
    /\ FoldIdle

NextTx == AddSimpleChange \/ AddSplitChange \/ Finalize

SpecTx == InitTx /\ [][NextTx]_vars


----------------------------------------------------------------------------
(* Properties of the transaction operations                                *)

\* The magnitude account holds in commodity c, 0 when it holds none.
MagnitudeOf(changes, account, c) ==
    IF account \in DOMAIN changes /\ Position(changes[account], c) # 0
    THEN changes[account][Position(changes[account], c)][2]
    ELSE 0

\* The commodities account holds in changes.
Held(changes, account) ==
    IF account \in DOMAIN changes
    THEN {changes[account][i][1] : i \in 1..Len(changes[account])}
    ELSE {}

\* The magnitudes of commodity c over all accounts, summed.
TotalOf(changes, c) ==
    LET RECURSIVE Total(_)
        Total(S) == IF S = {} THEN 0
                    ELSE LET a == CHOOSE x \in S : TRUE
                         IN MagnitudeOf(changes, a, c) + Total(S \ {a})
    IN Total(DOMAIN changes)

\* C1: immediately after finalize(X), balance() lists every commodity that
\* appears in any account, before or after the call, each with magnitude zero.
C1_FinalizeBalances ==
    last.op = "finalize" =>
        LET b == balance(tx.changes)
        IN /\ {b[i][1] : i \in 1..Len(b)} = CommoditiesOf(tx.changes)
           /\ CommoditiesOf(prev) \subseteq CommoditiesOf(tx.changes)
           /\ \A i \in 1..Len(b) : b[i][2] = 0
           /\ \A c \in CommoditiesOf(tx.changes) : TotalOf(tx.changes, c) = 0

\* finalize ran on an account that already held a posting, with two
\* commodities out of balance, and left nonzero postings behind.
C1_Witness ==
    /\ last.op = "finalize"
    /\ last.account \in DOMAIN prev
    /\ Cardinality(DOMAIN prev) = 2
    /\ \A c \in Commodities : TotalOf(prev, c) # 0
    /\ \A c \in Commodities : MagnitudeOf(tx.changes, last.account, c) # 0

\* The commodities the last operation added to account.
Touched(account) ==
    CASE last.op = "add" -> IF account = last.account THEN {last.amount[1]} ELSE {}
      [] last.op = "split" ->
            IF account \in {last.account, last.account2} THEN {last.amount[1]} ELSE {}
      [] last.op = "finalize" -> IF account = last.account THEN CommoditiesOf(prev) ELSE {}
      [] OTHER -> {}

\* C2: in every reachable state each account's sequence is nonempty, holds each
\* commodity once and ascends by commodity; an operation lengthens a sequence
\* only by the commodities the account did not hold, and an amount added for a
\* commodity the account holds is summed into the entry where it stands.
C2_UniqueSorted ==
    /\ \A a \in DOMAIN tx.changes :
        LET v == tx.changes[a]
        IN /\ Len(v) >= 1
           /\ \A i, j \in 1..Len(v) : i < j => StrLess(v[i][1], v[j][1])
    /\ \A a \in DOMAIN prev :
        /\ a \in DOMAIN tx.changes
        /\ Len(tx.changes[a]) = Cardinality(Held(prev, a) \cup Touched(a))
    /\ (last.op = "add" /\ last.amount[1] \in Held(prev, last.account)) =>
        LET old == prev[last.account]
            new == tx.changes[last.account]
            pos == Position(old, last.amount[1])
        IN /\ Len(new) = Len(old)
           /\ \A i \in 1..Len(old) :
                new[i] = IF i = pos
                         THEN Amount(last.amount[1], old[i][2] + last.amount[2])
                         ELSE old[i]

\* An amount was added for a commodity the account held as its second entry.
C2_Witness ==
    /\ last.op = "add"
    /\ last.account \in DOMAIN prev
    /\ Len(prev[last.account]) = 2
    /\ Position(prev[last.account], last.amount[1]) = 2
    /\ tx.changes # prev

\* What the last operation, a split, did to the magnitude of (account, c).
Delta(account, c) == MagnitudeOf(tx.changes, account, c) - MagnitudeOf(prev, account, c)

\* A split leaves every other account and commodity as it met them.
SplitFrame ==
    /\ DOMAIN tx.changes = DOMAIN prev \cup {last.account, last.account2}
    /\ \A a \in DOMAIN tx.changes :
        /\ Held(tx.changes, a) =
             Held(prev, a) \cup (IF a \in {last.account, last.account2}
                                 THEN {last.amount[1]} ELSE {})
        /\ \A c \in Held(tx.changes, a) :
             (a \notin {last.account, last.account2} \/ c # last.amount[1])
                => Delta(a, c) = 0

\* C4 as claimed: each of the two accounts changes by exactly amount/2, the
\* balance of the commodity rises by exactly amount, nothing else changes.
C4_Original ==
    last.op = "split" =>
        /\ 2 * Delta(last.account, last.amount[1]) = last.amount[2]
        /\ 2 * Delta(last.account2, last.amount[1]) = last.amount[2]
        /\ TotalOf(tx.changes, last.amount[1]) - TotalOf(prev, last.amount[1])
             = last.amount[2]
        /\ SplitFrame

\* C4 amended: each add of the split adds the half the decimal division
\* returned (twice into the one account when account1 = account2); the half is
\* exactly amount/2 when that is representable and a neighbouring value one
\* half-unit off otherwise; the balance rises by twice the half; nothing else
\* changes.
C4_SplitEffect ==
    last.op = "split" =>
        LET c == last.amount[1]
            m == last.amount[2]
            h == last.half
        IN /\ IF m % 2 = 0 THEN 2 * h = m ELSE (2 * h = m + 1 \/ 2 * h = m - 1)
           /\ IF last.account = last.account2
              THEN Delta(last.account, c) = 2 * h
              ELSE Delta(last.account, c) = h /\ Delta(last.account2, c) = h
           /\ TotalOf(tx.changes, c) - TotalOf(prev, c) = 2 * h
           /\ SplitFrame

\* A split between two different accounts of an amount with an exact half,
\* into a transaction that already held postings in both commodities.
C4_Witness ==
    /\ last.op = "split"
    /\ last.account # last.account2
    /\ last.amount[2] = 2
    /\ last.half = 1
    /\ Cardinality(CommoditiesOf(prev)) = 2
    /\ Delta(last.account, last.amount[1]) = 1


----------------------------------------------------------------------------
(* Sequences of SimpleChange operations on a fresh transaction             *)

\* Operation::AddSimpleChange, with the operation appended to log.
SimpleChangeLogged ==
    \E account \in MoreAccounts, c \in Commodities, m \in AddMagnitudes :
        /\ Len(log) < MaxOps
        /\ tx' = [tx EXCEPT !.changes = add_change(tx.changes, account, Amount(c, m))]
        /\ log' = Append(log, <<account, Amount(c, m)>>)
        /\ UNCHANGED <<prev, last, out, iter, pc>>
        /\ UNCHANGED NotTx

NextSimple == SimpleChangeLogged

SpecSimple == InitTx /\ [][NextSimple]_vars

\* The changes map left by applying the operations of ops, in order, to changes.
RECURSIVE ApplyAll(_, _)
ApplyAll(changes, ops) ==
    IF ops = <<>> THEN changes
    ELSE ApplyAll(add_change(changes, Head(ops)[1], Head(ops)[2]), Tail(ops))

\* The sum of the magnitudes ops gives for (account, c).
RECURSIVE SumGiven(_, _, _)
SumGiven(ops, account, c) ==
    IF ops = <<>> THEN 0
    ELSE (IF Head(ops)[1] = account /\ Head(ops)[2][1] = c THEN Head(ops)[2][2] ELSE 0)
         + SumGiven(Tail(ops), account, c)

\* The commodities ops names for account.
CommoditiesGiven(ops, account) ==
    {ops[i][2][1] : i \in {j \in 1..Len(ops) : ops[j][1] = account}}

\* The ascending sequence of the strings of S.
RECURSIVE Ascending(_)
Ascending(S) ==
    IF S = {} THEN <<>>
    ELSE LET m == CHOOSE x \in S : \A y \in S : x = y \/ StrLess(x, y)
         IN <<m>> \o Ascending(S \ {m})

\* The map that holds, per account of ops, the sums by commodity, ascending.
SumsOf(ops) ==
    [a \in {ops[i][1] : i \in 1..Len(ops)} |->
        LET cs == Ascending(CommoditiesGiven(ops, a))
        IN [k \in 1..Len(cs) |-> Amount(cs[k], SumGiven(ops, a, cs[k]))]]

\* C3: after any sequence of SimpleChange operations on a fresh transaction the
\* map holds, per (account, commodity) pair that occurs, the sum of the amounts
\* given for it, and every permutation of the sequence leaves the same map,
\* the order inside each account included.
C3_SumsAnyOrder ==
    /\ tx.changes = SumsOf(log)
    /\ \A p \in Permutations(1..Len(log)) :
        ApplyAll(EmptyChanges, [i \in 1..Len(log) |-> log[p[i]]]) = tx.changes

\* Three operations on one account: the later commodity first, then the
\* earlier one, then the later one again.
C3_Witness ==
    /\ Len(log) = 3
    /\ log[1][1] = log[2][1] /\ log[2][1] = log[3][1]
    /\ StrLess(log[2][2][1], log[1][2][1])
    /\ log[3][2][1] = log[1][2][1]
    /\ Len(tx.changes[log[1][1]]) = 2

----------------------------------------------------------------------------
(* A split change undone by two simple changes                             *)

\* The amounts the scenario splits.
ReverseMagnitudes == {0 - 2, 0 - 1, 1, 2}

\* SplitChange(A, B, amount) on the fresh transaction.
ReverseSplit ==
    \E account \in MoreAccounts, split_account \in MoreAccounts,
       c \in Commodities, m \in ReverseMagnitudes :
        \E half \in Div2(m) :
            /\ pc = 0
            /\ tx' = [tx EXCEPT !.changes =
                        add_split_change(tx.changes, account, split_account,
                                         Amount(c, m), half)]
            /\ prev' = tx.changes
            /\ last' = [op |-> "split", account |-> account, account2 |-> split_account,
                        amount |-> Amount(c, m), half |-> half]
            /\ pc' = 1
            /\ UNCHANGED <<out, iter, log>>
            /\ UNCHANGED NotTx

\* SimpleChange(A, -amount/2).
ReverseFirst ==
    /\ pc = 1
    /\ tx' = [tx EXCEPT !.changes =
                add_change(tx.changes, last.account, Amount(last.amount[1], 0 - last.half))]
    /\ pc' = 2
    /\ UNCHANGED <<prev, last, out, iter, log>>
    /\ UNCHANGED NotTx

\* SimpleChange(B, -amount/2).
ReverseSecond ==
    /\ pc = 2
    /\ tx' = [tx EXCEPT !.changes =
                add_change(tx.changes, last.account2, Amount(last.amount[1], 0 - last.half))]
    /\ pc' = 3
    /\ UNCHANGED <<prev, last, out, iter, log>>
    /\ UNCHANGED NotTx

NextReverse == ReverseSplit \/ ReverseFirst \/ ReverseSecond

SpecReverse == InitTx /\ [][NextReverse]_vars

\* C5 as claimed: the split undone by the two simple changes leaves a changes
\* map with no postings.
C5_Original == pc = 3 => tx.changes = EmptyChanges

\* C5 amended: the split undone by the two simple changes leaves A and B in the
\* map, each with the one posting of the amount's commodity at magnitude zero,
\* and balance() reports zero for that commodity.
C5_ZeroPostings ==
    pc = 3 =>
        /\ DOMAIN tx.changes = {last.account, last.account2}
        /\ \A a \in DOMAIN tx.changes : tx.changes[a] = <<Amount(last.amount[1], 0)>>
        /\ balance(tx.changes) = <<Amount(last.amount[1], 0)>>

\* The scenario ran to its end on two different accounts with a nonzero half.
C5_Witness ==
    /\ pc = 3
    /\ last.account # last.account2
    /\ last.half # 0
    /\ Cardinality(DOMAIN tx.changes) = 2


----------------------------------------------------------------------------
(* Rendering                                                               *)

\* The magnitudes of the transactions rendered.
DisplayMagnitudes == {0 - 1, 0, 1}

\* The vectors add_change builds: one amount per commodity of a nonempty set,
\* ascending by commodity.
AmountVectors ==
    {SortedSeq({Amount(c, f[c]) : c \in DOMAIN f}) :
        f \in UNION {[C -> DisplayMagnitudes] : C \in (SUBSET Commodities) \ {{}}}}

\* The transactions rendered: every changes map over MoreAccounts that
\* sequences of add_change build.
InitDisplay ==
    /\ tx \in {[date |-> "2020-01-10", description |-> "Test transaction", changes |-> ch] :
                ch \in UNION {[S -> AmountVectors] : S \in SUBSET MoreAccounts}}
    /\ prev = EmptyChanges
    /\ last = NoOp
    /\ out = <<>>
    /\ iter = <<>>
    /\ log = <<>>
    /\ pc = 0
    /\ ParserFresh
    /\ LedgerIdle
    /\ TUINew
    /\ FoldIdle

\* print!("{}", tx): fmt writes the transaction, the HashMap yielding its
\* accounts in any order.
Render ==
    \E order \in IterationOrders(DOMAIN tx.changes) :
        /\ out' = fmt(tx, order)
        /\ iter' = order
        /\ UNCHANGED <<tx, prev, last, log, pc>>
        /\ UNCHANGED NotTx

NextDisplay == Render

SpecDisplay == InitDisplay /\ [][NextDisplay]_vars

\* The (account, commodity) pairs of changes.
Pairs(changes) ==
    UNION {{<<a, changes[a][i][1]>> : i \in 1..Len(changes[a])} : a \in DOMAIN changes}

\* C6: the rendered text is the header line followed by one posting line per
\* (account, commodity) pair, carrying the pair's magnitude; every line with a
\* magnitude >= 0 precedes every line with a negative one; each of the two
\* groups ascends by account; and the text is the one every iteration order
\* of the account map gives.
C6_RenderedOrder ==
    out # <<>> =>
        /\ out[1] = <<"header", tx.date, tx.description>>
        /\ Len(out) = 1 + Cardinality(Pairs(tx.changes))
        /\ \A pr \in Pairs(tx.changes) :
            \E i \in 2..Len(out) :
                out[i] = <<"posting", pr[1], pr[2], MagnitudeOf(tx.changes, pr[1], pr[2])>>
        /\ \A i, j \in 2..Len(out) :
            i < j =>
                /\ out[i][4] < 0 => out[j][4] < 0
                /\ ((out[i][4] < 0) = (out[j][4] < 0)) => ~StrLess(out[j][2], out[i][2])
        /\ \A order \in IterationOrders(DOMAIN tx.changes) : fmt(tx, order) = out

\* Three accounts rendered from an order that is not ascending, with a zero,
\* a positive and a negative amount among the postings.
C6_Witness ==
    /\ Len(out) >= 5
    /\ Len(iter) = 3
    /\ StrLess(iter[2], iter[1])
    /\ \E i, j, k \in 2..Len(out) : out[i][4] = 0 /\ out[j][4] > 0 /\ out[k][4] < 0


----------------------------------------------------------------------------
(* The parser fed word by word                                             *)

\* p.parse_word(word), for any word.
ParseWord ==
    \E w \in Words :
        LET r == parse_word(parser, w)
        IN /\ parser' = r.p
           /\ pprev' = parser
           /\ word' = w
           /\ result' = r.res
           /\ accepted' = IF r.res = "Ok" THEN Append(accepted, w) ELSE accepted
           /\ path' = IF r.res = "Ok" THEN Append(path, r.p.next) ELSE path
           /\ UNCHANGED NotParser

\* parser::Parser::new(), for the next line.
NewParser ==
    /\ word # <<>>
    /\ parser' = Parser_new
    /\ pprev' = Parser_new
    /\ word' = <<>>
    /\ result' = "none"
    /\ accepted' = <<>>
    /\ path' = <<"Operation">>
    /\ UNCHANGED NotParser

NextParser == ParseWord \/ NewParser

SpecParser == InitTx /\ [][NextParser]_vars

----------------------------------------------------------------------------
(* Properties of the parser                                                *)

\* The values of next along a whole command of the operation code w.
PathOf(w) ==
    CASE w = <<"a">> -> <<"Operation", "Account", "Currency", "Amount", "EOL">>
      [] w = <<"s">> -> <<"Operation", "Account", "Account", "Currency", "Amount", "EOL">>
      [] w = <<"f">> -> <<"Operation", "Account", "EOL">>
      [] OTHER -> <<"Operation">>

\* C7: from a fresh parser, the values next takes as words are accepted are
\* the first values of the path of the operation code accepted first, one
\* more value per accepted word; a rejected word adds none.
C7_TokenPaths ==
    /\ Len(path) = Len(accepted) + 1
    /\ parser.next = path[Len(path)]
    /\ IF accepted = <<>>
       THEN path = <<"Operation">>
       ELSE /\ Len(path) <= Len(PathOf(accepted[1]))
            /\ path = SubSeq(PathOf(accepted[1]), 1, Len(path))
    /\ result = "Ok" =>
         <<pprev.next, parser.next>> \in
            {<<"Operation", "Account">>, <<"Account", "Account">>,
             <<"Account", "Currency">>, <<"Account", "EOL">>,
             <<"Currency", "Amount">>, <<"Amount", "EOL">>}

\* The last word of a whole split command was accepted.
C7_Witness ==
    /\ path = <<"Operation", "Account", "Account", "Currency", "Amount", "EOL">>
    /\ accepted[1] = <<"s">>
    /\ result = "Ok"

\* C8: a word parse_word rejects leaves next and every accumulated field as
\* they were, and where a word is still expected the parser goes on to accept
\* one.
C8_RejectKeepsState ==
    (word # <<>> /\ result # "Ok") =>
        /\ parser.next = pprev.next
        /\ parser.op_type = pprev.op_type
        /\ parser.accounts = pprev.accounts
        /\ parser.currency = pprev.currency
        /\ parser.amount = pprev.amount
        /\ parser.next # "EOL" => \E w \in Words : parse_word(parser, w).res = "Ok"

\* A word was rejected where the second account of a split was expected.
C8_Witness ==
    /\ word # <<>>
    /\ result = "Account name contains invalid character"
    /\ parser.op_type = Some("AddSplit")
    /\ Len(parser.accounts) = 1

\* The Operation the accepted words of a whole command spell.
OperationOf(ws) ==
    CASE ws[1] = <<"a">> ->
            Operation("AddSimpleChange", <<ws[2]>>,
                      Some(Amount(ws[3], Decimal_from_str(ws[4])[1])))
      [] ws[1] = <<"s">> ->
            Operation("AddSplitChange", <<ws[2], ws[3]>>,
                      Some(Amount(ws[4], Decimal_from_str(ws[5])[1])))
      [] ws[1] = <<"f">> -> Operation("Finalize", <<ws[2]>>, None)

\* C9: a word fed when next is EOL is rejected with the end-of-line error, next
\* stays EOL, and operation() returns the Operation of the words accepted
\* before.
C9_EndOfLine ==
    (word # <<>> /\ pprev.next = "EOL") =>
        /\ result = "Unexpected input at end of line"
        /\ parser.next = "EOL"
        /\ parser = pprev
        /\ operation(parser) = SomeOperation(OperationOf(accepted))

\* A word that is an operation code was fed after a whole simple change.
C9_Witness ==
    /\ pprev.next = "EOL"
    /\ word = <<"a">>
    /\ parser.op_type = Some("AddSimple")
    /\ Len(accepted) = 4

\* C10: after any calls of parse_word, operation() returns an Operation when
\* next is EOL and None otherwise, and it never panics: at EOL the operation
\* kind is set, there is one account for AddSimple and Finalize and two for
\* AddSplit, and currency and amount are set for AddSimple and AddSplit.
C10_OperationComplete ==
    /\ operation(parser).kind # "panic"
    /\ (operation(parser).kind = "Some") = (parser.next = "EOL")
    /\ parser.next # "EOL" => operation(parser) = NoOperation
    /\ parser.next = "EOL" =>
        /\ parser.op_type # None
        /\ Len(parser.accounts) = (IF parser.op_type = Some("AddSplit") THEN 2 ELSE 1)
        /\ parser.op_type # Some("Finalize") =>
                parser.currency # None /\ parser.amount # None
        /\ operation(parser) = SomeOperation(OperationOf(accepted))

\* A split command became whole: operation() returns it with its two accounts.
C10_Witness ==
    /\ parser.next = "EOL"
    /\ parser.op_type = Some("AddSplit")
    /\ result = "Ok"
    /\ operation(parser).kind = "Some"
    /\ Len(operation(parser).op.accounts) = 2


----------------------------------------------------------------------------
(* The ledger file (src/ledger.rs)                                         *)
(* A file is the sequence of its bytes, each a one-character string; an    *)
(* offset counts the bytes before a position.  The dates are the days of   *)
(* January 2020, a date being the number of its day.                       *)

\* Most calls of write_transaction in one behaviour.
MaxInserts == 2

\* The days the transactions are dated.
Days == {5, 10, 15}

\* The two digits of the day d.
TwoDigits(d) == <<DigitChars[(d \div 10) + 1], DigitChars[(d % 10) + 1]>>

\* NaiveDate's Display, "%Y-%m-%d".
NaiveDate_fmt(d) == <<"2", "0", "2", "0", "-", "0", "1", "-">> \o TwoDigits(d)

\* The digits of the natural number n.
RECURSIVE Nat_fmt(_)
Nat_fmt(n) ==
    IF n < 10 THEN <<DigitChars[n + 1]>>
    ELSE Nat_fmt(n \div 10) \o <<DigitChars[(n % 10) + 1]>>

\* Decimal's Display, of a whole number.
Decimal_fmt(m) == IF m < 0 THEN <<"-">> \o Nat_fmt(0 - m) ELSE Nat_fmt(m)

\* The String of the characters of w.
RECURSIVE String_from(_)
String_from(w) == IF w = <<>> THEN "" ELSE w[1] \o String_from(Tail(w))

\* The character sequences of the strings written to the ledger file.
Texts == Words \cup {<<>>, <<"A">>, <<"B">>, <<"G">>, <<"H">>, <<"I">>, <<"J">>}

\* The bytes of the String s.
as_bytes(s) == CHOOSE w \in Texts : String_from(w) = s

\* The bytes of one line of fmt: "{} {}\n" of the header, "\t{}\t{} {}\n" of
\* a posting.
LineBytes(l) ==
    IF l[1] = "header"
    THEN NaiveDate_fmt(l[2]) \o <<" ">> \o as_bytes(l[3]) \o <<"\n">>
    ELSE <<"\t">> \o as_bytes(l[2]) \o <<"\t">> \o as_bytes(l[3]) \o <<" ">>
         \o Decimal_fmt(l[4]) \o <<"\n">>

\* The bytes of the lines ls, one after the other.
RECURSIVE Bytes(_)
Bytes(ls) == IF ls = <<>> THEN <<>> ELSE LineBytes(Head(ls)) \o Bytes(Tail(ls))

\* The texts "{}" can write of t, one for each order the HashMap can yield.
to_string(t) == {Bytes(fmt(t, order)) : order \in IterationOrders(DOMAIN t.changes)}

\* A transaction of day d moving one "$" from account B to account A.
LedgerTx(d, description) ==
    [date |-> d, description |-> description,
     changes |-> add_change(add_change(EmptyChanges, "A", Amount("$", 1)),
                            "B", Amount("$", 0 - 1))]

\* The text of such a transaction.
Entry(d, description) == CHOOSE text \in to_string(LedgerTx(d, description)) : TRUE

\* The transactions write_transaction is given.
LedgerTxs == {LedgerTx(d, description) : d \in Days, description \in {"G", "H"}}

\* The ledger files write_transaction first meets: an empty file, a file of
\* one entry, a file of two entries with an empty line between them.
InitialFiles ==
    {<<>>,
     Entry(10, "I"),
     Entry(5, "I") \o <<"\n">> \o Entry(15, "J")}

\* The offsets at which the lines of b begin.
LineStarts(b) ==
    IF b = <<>> THEN {} ELSE {0} \cup {i \in 1..(Len(b) - 1) : b[i] = "\n"}

\* The offset at which the line after the one beginning at s begins: past
\* the newline of that line, or the end of b when it has none.
NextLine(b, s) ==
    IF \E i \in (s + 1)..Len(b) : b[i] = "\n"
    THEN CHOOSE i \in (s + 1)..Len(b) :
            /\ b[i] = "\n"
            /\ \A j \in (s + 1)..(i - 1) : b[j] # "\n"
    ELSE Len(b)

\* The characters of the line beginning at s, its newline left out.
LineAt(b, s) ==
    LET n == NextLine(b, s)
    IN IF b[n] = "\n" THEN SubSeq(b, s + 1, n - 1) ELSE SubSeq(b, s + 1, n)

\* The line l opens an entry: a date, then the end of the line or a space.
IsHeader(l) ==
    /\ Len(l) >= 10
    /\ SubSeq(l, 1, 8) = <<"2", "0", "2", "0", "-", "0", "1", "-">>
    /\ l[9] \in Digits /\ l[10] \in Digits
    /\ 10 * DigitValue(l[9]) + DigitValue(l[10]) \in 1..31
    /\ (Len(l) > 10 => l[11] = " ")

\* The day of the header line l.
DayOf(l) == 10 * DigitValue(l[9]) + DigitValue(l[10])

\* The line l is a posting: indented, and not blank.
IsPosting(l) == Len(l) >= 2 /\ l[1] \in {"\t", " "}

\* The offset of the header line of the entry the posting line at s belongs
\* to: the lines before it are postings back to a header.  0 - 1 when the
\* posting follows no header.
RECURSIVE Owner(_, _)
Owner(b, s) ==
    LET before == {r \in LineStarts(b) : r < s}
    IN IF before = {} THEN 0 - 1
       ELSE LET r == CHOOSE x \in before : \A y \in before : y <= x
            IN IF IsHeader(LineAt(b, r)) THEN r
               ELSE IF IsPosting(LineAt(b, r)) THEN Owner(b, r)
               ELSE 0 - 1

\* The ledger tool can read the journal b: each line is empty, a header, or
\* a posting of an entry.
JournalParses(b) ==
    \A s \in LineStarts(b) :
        \/ LineAt(b, s) = <<>>
        \/ IsHeader(LineAt(b, s))
        \/ IsPosting(LineAt(b, s)) /\ Owner(b, s) >= 0

\* The postings of S as register lists them, --sort date,beg_pos: each
\* <<date, beg_pos, end_pos>>, by date and then by place in the file.
RECURSIVE SortPostings(_)
SortPostings(S) ==
    IF S = {} THEN <<>>
    ELSE LET m == CHOOSE x \in S :
                    \A y \in S : x[1] < y[1] \/ (x[1] = y[1] /\ x[2] <= y[2])
         IN <<m>> \o SortPostings(S \ {m})

\* The lines "ledger register --format %(date),%(end_pos)\n" prints of the
\* journal b, each line the sequence of its comma-separated fields: for
\* every posting the date of its entry and the offset at which the posting
\* ends, which is where the next line begins.  The text ends in a newline,
\* so an empty line closes the listing.
Register(b) ==
    LET posts == {s \in LineStarts(b) : IsPosting(LineAt(b, s))}
        sorted == SortPostings({<<DayOf(LineAt(b, Owner(b, s))), s, NextLine(b, s)>> :
                                    s \in posts})
    IN [i \in 1..Len(sorted) |-> <<sorted[i][1], sorted[i][3]>>] \o << <<>> >>

\* What Command::output() can come to on the journal b: the tool cannot be
\* run; it exits unsuccessfully, having printed nothing; it prints bytes that
\* are not UTF-8; it prints a line without a comma; it lists the postings.
Outputs(b) ==
    {[kind |-> "spawn_error", utf8 |-> TRUE, stdout |-> <<>>],
     [kind |-> "exit_failure", utf8 |-> TRUE, stdout |-> <<>>],
     [kind |-> "non_utf8", utf8 |-> FALSE, stdout |-> <<>>],
     [kind |-> "malformed", utf8 |-> TRUE, stdout |-> << <<10>>, <<>> >>]}
    \cup (IF JournalParses(b)
          THEN {[kind |-> "ok", utf8 |-> TRUE, stdout |-> Register(b)]}
          ELSE {})

\* process_ledger_output: the non-empty lines of the output, or the error
\* of a text that is not UTF-8.
process_ledger_output(output) ==
    IF output.utf8
    THEN [res |-> "Ok", v |-> SelectSeq(output.stdout, LAMBDA l : l # <<>>)]
    ELSE [res |-> "Err", v |-> <<>>]

\* A step of the fold that leaves a collected pair of the same date alone.
fold_step_keeping_first(acc, pair) ==
    IF acc # <<>> /\ acc[Len(acc)][1] = pair[1]
    THEN acc
    ELSE Append(acc, pair)

\* One step of the fold of get_date_end_positions: a pair of the date of the
\* last collected pair takes its place, any other pair is pushed.
fold_step(acc, pair) ==
    IF acc # <<>> /\ acc[Len(acc)][1] = pair[1]
    THEN Append(SubSeq(acc, 1, Len(acc) - 1), pair)
    ELSE Append(acc, pair)

\* The fold of get_date_end_positions over the pairs.
RECURSIVE fold(_, _)
fold(acc, pairs) ==
    IF pairs = <<>> THEN acc
    ELSE fold(fold_step(acc, Head(pairs)), Tail(pairs))

\* get_date_end_positions, given what Command::output() came to.  The exit
\* status is not looked at; unwrap() panics on a line with a field missing.
get_date_end_positions(output) ==
    IF output.kind = "spawn_error" THEN [res |-> "Err", v |-> <<>>]
    ELSE LET lines == process_ledger_output(output)
         IN IF lines.res = "Err" THEN lines
            ELSE IF \E i \in 1..Len(lines.v) : Len(lines.v[i]) < 2
            THEN [res |-> "panic", v |-> <<>>]
            ELSE [res |-> "Ok", v |-> fold(<<>>, lines.v)]

\* get_pos_for_date taking the offset at the insertion index itself.
get_pos_for_date_at_index(ends, tx_date) ==
    IF \E i \in 1..Len(ends) : ends[i][1] = tx_date
    THEN ends[CHOOSE i \in 1..Len(ends) : ends[i][1] = tx_date][2]
    ELSE LET larger_occurrence_index == Cardinality({i \in 1..Len(ends) : ends[i][1] < tx_date})
         IN IF larger_occurrence_index = Len(ends) THEN 0
            ELSE ends[larger_occurrence_index + 1][2]

\* get_pos_for_date.  binary_search_by_key on the vector, sorted by date and
\* one pair to a date: Ok(i) at the pair of the date; Err(j), j the number
\* of pairs of an earlier date, when there is none.
get_pos_for_date(ends, tx_date) ==
    IF \E i \in 1..Len(ends) : ends[i][1] = tx_date
    THEN ends[CHOOSE i \in 1..Len(ends) : ends[i][1] = tx_date][2]
    ELSE LET larger_occurrence_index == Cardinality({i \in 1..Len(ends) : ends[i][1] < tx_date})
         IN IF larger_occurrence_index = 0 THEN 0
            ELSE ends[larger_occurrence_index][2]

\* The two builds: arithmetic overflow panics in one and wraps in the other.
Builds == {"debug", "release"}

\* split_offset: None is the panic.  On an empty buffer buf.len() - 1
\* overflows: the debug build panics; the release build wraps to
\* usize::MAX, which is above tx_pos.
split_offset(build, tx_pos, len) ==
    IF len = 0
    THEN IF build = "debug" THEN None ELSE Some(1)
    ELSE IF tx_pos < len - 1 THEN Some(1) ELSE Some(0)

\* The index of buf.split_at(tx_pos + split_offset); None is a panic, of the
\* subtraction or of split_at on an index past the end.
split_index(build, b, tx_pos) ==
    LET offset == split_offset(build, tx_pos, Len(b))
    IN IF offset = None THEN None
       ELSE IF tx_pos + offset[1] > Len(b) THEN None
       ELSE Some(tx_pos + offset[1])

\* before_tx and after_tx.
before_tx == SubSeq(buf, 1, mid)

\* after_tx without the byte at the split.
after_tx_past_split == SubSeq(buf, mid + 2, Len(buf))

after_tx == SubSeq(buf, mid + 1, Len(buf))

\* The newline written before the transaction (lines 58 to 62).
newline_before ==
    IF before_tx # <<>> /\ (before_tx[Len(before_tx)] # "\n" \/ after_tx = <<>>)
    THEN <<"\n">> ELSE <<>>

\* A newline written after the transaction whatever after_tx begins with.
newline_after_always == <<"\n">>

\* The newline written after the transaction (lines 66 to 68).
newline_after ==
    IF after_tx = <<>> \/ after_tx[1] # "\n" THEN <<"\n">> ELSE <<>>

\* write_transaction is called with the transaction t and runs
\* get_date_end_positions (line 44): an error is returned, a panic ends the
\* program, a vector lets it go on.
write_transaction(t) ==
    /\ wpc = "idle"
    /\ calls' = calls + 1
    /\ \E output \in Outputs(file) :
        LET ends == get_date_end_positions(output)
        IN /\ wtx' = Some(t)
           /\ orig' = file
           /\ oracle' = output.kind
           /\ date_ends' = ends.v
           /\ wpc' = CASE ends.res = "Ok" -> "open"
                       [] ends.res = "Err" -> "idle"
                       [] ends.res = "panic" -> "panicked"
           /\ wres' = IF ends.res = "Ok" THEN "running" ELSE ends.res
    /\ buf' = <<>>
    /\ mid' = 0
    /\ UNCHANGED <<file, tmp, inserted>>

\* write_transaction is called with one of the transactions of LedgerTxs.
WT_Call ==
    /\ calls < MaxInserts
    /\ \E t \in LedgerTxs : write_transaction(t)
    /\ UNCHANGED NotLedger

\* The file is read and split (lines 45 to 54).
WT_Read ==
    /\ wpc = "open"
    /\ buf' = file
    /\ \E build \in Builds :
        LET index == split_index(build, file, get_pos_for_date(date_ends, wtx[1].date))
        IN IF index = None
           THEN /\ mid' = mid
                /\ wpc' = "panicked"
                /\ wres' = "panic"
           ELSE /\ mid' = index[1]
                /\ wpc' = "create"
                /\ wres' = wres
    /\ UNCHANGED <<file, tmp, wtx, orig, oracle, date_ends, inserted, calls>>
    /\ UNCHANGED NotLedger

\* A step that writes the bytes over the ledger file itself.
WT_Step_in_place(from, to, bytes) ==
    /\ wpc = from
    /\ wpc' = to
    /\ file' = bytes
    /\ UNCHANGED <<tmp, wtx, orig, oracle, date_ends, buf, mid, calls, wres, inserted>>
    /\ UNCHANGED NotLedger

\* A step of write_transaction between File::create and rename: it moves on,
\* the temporary file holding the bytes.
WT_Step(from, to, bytes) ==
    /\ wpc = from
    /\ wpc' = to
    /\ tmp' = Some(bytes)
    /\ UNCHANGED <<file, wtx, orig, oracle, date_ends, buf, mid, wres, inserted, calls>>
    /\ UNCHANGED NotLedger

\* File::create (line 56): the temporary file is there and empty.
WT_Create == /\ wpc = "create"
             /\ WT_Step("create", "before", <<>>)

\* before_tx and the newline after it are written (lines 57 to 62).
WT_WriteBefore ==
    /\ wpc = "before"
    /\ WT_Step("before", "tx", tmp[1] \o before_tx \o newline_before)

\* The transaction is written (line 64).
WT_WriteTx ==
    /\ wpc = "tx"
    /\ \E text \in to_string(wtx[1]) : WT_Step("tx", "after", tmp[1] \o text)

\* The newline before after_tx and after_tx are written (lines 66 to 70).
WT_WriteAfter ==
    /\ wpc = "after"
    /\ WT_Step("after", "sync", tmp[1] \o newline_after \o after_tx)

\* sync_all (line 71).
WT_Sync ==
    /\ wpc = "sync"
    /\ WT_Step("sync", "rename", tmp[1])

\* rename (line 72): the temporary file takes the place of the ledger file,
\* and write_transaction returns Ok.
WT_Rename ==
    /\ wpc = "rename"
    /\ file' = tmp[1]
    /\ tmp' = None
    /\ wpc' = "idle"
    /\ wres' = "Ok"
    /\ inserted' = Append(inserted, wtx[1])
    /\ UNCHANGED <<wtx, orig, oracle, date_ends, buf, mid, calls>>
    /\ UNCHANGED NotLedger

\* An operation on a file fails and `?` returns the error (lines 47 to 72).
\* The temporary file stays behind as it is.
WT_IoError ==
    /\ wpc \in {"open", "create", "before", "tx", "after", "sync", "rename"}
    /\ wpc' = "idle"
    /\ wres' = "Err"
    /\ tmp' = tmp
    /\ UNCHANGED <<file, wtx, orig, oracle, date_ends, buf, mid, inserted, calls>>
    /\ UNCHANGED NotLedger

InitLedger ==
    /\ tx = Transaction_new("2020-01-10", "Test transaction")
    /\ prev = EmptyChanges
    /\ last = NoOp
    /\ out = <<>>
    /\ iter = <<>>
    /\ log = <<>>
    /\ pc = 0
    /\ ParserFresh
    /\ file \in InitialFiles
    /\ tmp = None
    /\ wpc = "idle"
    /\ wtx = None
    /\ orig = <<>>
    /\ oracle = "none"
    /\ date_ends = <<>>
    /\ buf = <<>>
    /\ mid = 0
    /\ calls = 0
    /\ wres = "none"
    /\ inserted = <<>>
    /\ TUINew
    /\ FoldIdle

NextLedger ==
    \/ WT_Call
    \/ WT_Read
    \/ WT_Create
    \/ WT_WriteBefore
    \/ WT_WriteTx
    \/ WT_WriteAfter
    \/ WT_Sync
    \/ WT_Rename
    \/ WT_IoError

SpecLedger == InitLedger /\ [][NextLedger]_vars

----------------------------------------------------------------------------
(* The fold of get_date_end_positions, on its own                          *)

\* Most lines of a listing.
MaxListing == 3

\* The end offsets the lines of a listing carry.
EndOffsets == {7, 15, 28, 36, 49}

\* The listings of register --sort date,beg_pos: the lines by date, the
\* lines of one date by their place in the file, so that their end offsets
\* grow; no two lines end at the same offset.
Listings ==
    UNION {{l \in [1..n -> Days \X EndOffsets] :
                /\ \A i \in 1..(n - 1) :
                        \/ l[i][1] < l[i + 1][1]
                        \/ l[i][1] = l[i + 1][1] /\ l[i][2] < l[i + 1][2]
                /\ \A i, j \in 1..n : i # j => l[i][2] # l[j][2]} :
           n \in 0..MaxListing}

\* The closure of the fold is called with the next pair of the listing
\* (lines 114 to 122).
FoldStep ==
    /\ taken < Len(listing)
    /\ collected' = fold_step(collected, listing[taken + 1])
    /\ taken' = taken + 1
    /\ UNCHANGED listing
    /\ UNCHANGED <<txVars, parserVars, ledgerVars, tuiVars>>

InitFold ==
    /\ tx = Transaction_new("2020-01-10", "Test transaction")
    /\ prev = EmptyChanges
    /\ last = NoOp
    /\ out = <<>>
    /\ iter = <<>>
    /\ log = <<>>
    /\ pc = 0
    /\ ParserFresh
    /\ LedgerIdle
    /\ TUINew
    /\ listing \in Listings
    /\ collected = <<>>
    /\ taken = 0

NextFold == FoldStep

SpecFold == InitFold /\ [][NextFold]_vars

----------------------------------------------------------------------------
(* The controller (src/tui/mod.rs)                                         *)
(* A line is the sequence of its words, as split_ascii_whitespace yields   *)
(* them; the empty line is <<>>.                                           *)

\* Most change lines fed to one transaction.
MaxLines == 1

\* Most transactions the controller writes in one behaviour.
MaxCommits == 1

\* The lines entered at the header prompt: the empty line, a word that is no
\* date, a date and a description.
HeaderLines ==
    {<<>>,
     << <<"x">> >>,
     << <<"2", "0", "2", "0", "-", "0", "1", "-", "0", "5">>, <<"G">> >>}

\* The lines entered at the change prompt, the empty line apart: the three
\* commands; the first of them with a bad operation code, a bad account, a
\* bad currency or a bad amount before the good word, or with a word after
\* its end; a command cut short, without and with a rejected word.
ChangeLines ==
    {<< <<"a">>, <<"E", "x", "p">>, <<"$">>, <<"2">> >>,
     << <<"s">>, <<"E", "x", "p">>, <<"D", ":", "P">>, <<"$">>, <<"2">> >>,
     << <<"f">>, <<"E", "x", "p">> >>,
     << <<"x">>, <<"a">>, <<"E", "x", "p">>, <<"$">>, <<"2">> >>,
     << <<"a">>, <<"1", "c", "h">>, <<"E", "x", "p">>, <<"$">>, <<"2">> >>,
     << <<"a">>, <<"E", "x", "p">>, <<"1", "2", "3">>, <<"$">>, <<"2">> >>,
     << <<"a">>, <<"E", "x", "p">>, <<"$">>, <<"1", "a", "2", "b">>, <<"2">> >>,
     << <<"a">>, <<"E", "x", "p">>, <<"$">>, <<"2">>, <<"x">> >>,
     << <<"a">>, <<"E", "x", "p">>, <<"$">> >>,
     << <<"a">>, <<"1", "c", "h">> >>}

\* NaiveDate's FromStr, on the dates of January 2020: None is the error.
NaiveDate_from_str(w) ==
    IF Len(w) = 10 /\ IsHeader(w) THEN Some(DayOf(w)) ELSE None

\* fields.join(" ").
RECURSIVE join(_)
join(fields) ==
    IF fields = <<>> THEN <<>>
    ELSE IF Len(fields) = 1 THEN fields[1]
    ELSE fields[1] \o <<" ">> \o join(Tail(fields))

\* parse_transaction_header: Some(Transaction), or None for the error.
parse_transaction_header(l) ==
    IF l = <<>> THEN None
    ELSE IF NaiveDate_from_str(l[1]) = None THEN None
    ELSE Some(Transaction_new(NaiveDate_from_str(l[1])[1], String_from(join(Tail(l)))))

\* The loop of parse_change over the words ws, from the parser p with n
\* words rejected so far: a rejected word is reported and the loop goes on
\* to the next word.
RECURSIVE parse_words(_, _, _)
parse_words(p, ws, n) ==
    IF ws = <<>> THEN [p |-> p, rejects |-> n]
    ELSE LET r == parse_word(p, Head(ws))
         IN parse_words(r.p, Tail(ws), IF r.res = "Ok" THEN n ELSE n + 1)

\* The magnitude of the Decimal d of a change line, a whole number.
Ones(d) == d.m

\* The Amount of an Operation, its strings owned.
AmountOf(op) == Amount(String_from(op.amount[1][1]), Ones(op.amount[1][2]))

\* Operation::add_to_transation: the maps the operation can make of changes,
\* one for each outcome of the division of a split.
add_to_transation(op, changes) ==
    CASE op.type = "AddSimpleChange" ->
            {add_change(changes, String_from(op.accounts[1]), AmountOf(op))}
      [] op.type = "AddSplitChange" ->
            {add_split_change(changes, String_from(op.accounts[1]),
                              String_from(op.accounts[2]), AmountOf(op), half) :
                half \in Div2(AmountOf(op)[2])}
      [] op.type = "Finalize" ->
            {finalize(changes, String_from(op.accounts[1]))}

\* parse_header, on a line read at the header prompt: the transaction of
\* the header, or an error reported and no transaction.
ParseHeader ==
    /\ tpc = "prompt"
    /\ current_tx = None
    /\ \E l \in HeaderLines :
        /\ line' = l
        /\ current_tx' = parse_transaction_header(l)
    /\ tx_before' = current_tx
    /\ rejects' = 0
    /\ nlines' = 0
    /\ UNCHANGED tpc
    /\ UNCHANGED <<txVars, parserVars, ledgerVars, foldVars>>

\* parse_change, on a line of words read at the change prompt (lines 190 to
\* 204): a new Parser is fed the words; when it ends at EOL its operation is
\* applied to the transaction, and otherwise the line is reported invalid.
ParseChange ==
    /\ tpc = "prompt"
    /\ current_tx # None
    /\ nlines < MaxLines
    /\ \E l \in ChangeLines :
        LET run == parse_words(Parser_new, l, 0)
        IN /\ line' = l
           /\ rejects' = run.rejects
           /\ IF run.p.next # "EOL"
              THEN current_tx' = current_tx /\ tpc' = tpc
              ELSE IF operation(run.p).kind # "Some"
              THEN current_tx' = current_tx /\ tpc' = "panicked"
              ELSE /\ tpc' = tpc
                   /\ \E new \in add_to_transation(operation(run.p).op,
                                                   current_tx[1].changes) :
                        current_tx' = Some([current_tx[1] EXCEPT !.changes = new])
    /\ tx_before' = current_tx
    /\ nlines' = nlines + 1
    /\ UNCHANGED <<txVars, parserVars, ledgerVars, foldVars>>

\* parse_change, on the empty line (lines 181 to 184): write_transaction is
\* called with the transaction.
WriteCurrent ==
    /\ tpc = "prompt"
    /\ current_tx # None
    /\ calls < MaxCommits
    /\ write_transaction(current_tx[1])
    /\ tpc' = "writing"
    /\ line' = <<>>
    /\ tx_before' = current_tx
    /\ rejects' = 0
    /\ UNCHANGED <<current_tx, nlines>>
    /\ UNCHANGED <<txVars, parserVars, foldVars>>

\* parse_change, on the empty line, once write_transaction has returned
\* (lines 184 to 188): the error is reported, if any, and the transaction
\* is dropped.  What write_transaction held is gone with it.
ChangeDone ==
    /\ tpc = "writing"
    /\ wpc = "idle"
    /\ current_tx' = None
    /\ tpc' = "prompt"
    /\ nlines' = 0
    /\ wtx' = None
    /\ orig' = <<>>
    /\ date_ends' = <<>>
    /\ buf' = <<>>
    /\ mid' = 0
    /\ UNCHANGED <<file, tmp, wpc, oracle, calls, wres, inserted>>
    /\ UNCHANGED <<line, tx_before, rejects>>
    /\ UNCHANGED <<txVars, parserVars, foldVars>>

NextTUI ==
    \/ ParseHeader
    \/ ParseChange
    \/ WriteCurrent
    \/ ChangeDone
    \/ WT_Read
    \/ WT_Create
    \/ WT_WriteBefore
    \/ WT_WriteTx
    \/ WT_WriteAfter
    \/ WT_Sync
    \/ WT_Rename
    \/ WT_IoError

SpecTUI == InitLedger /\ [][NextTUI]_vars

\* A step of the call of write_transaction that is under way.
WriteSteps ==
    \/ WT_Read
    \/ WT_Create
    \/ WT_WriteBefore
    \/ WT_WriteTx
    \/ WT_WriteAfter
    \/ WT_Sync
    \/ WT_Rename
    \/ WT_IoError

\* The controller is one thread and the call of write_transaction blocks
\* it: a call under way goes on until it returns or panics, and when it has
\* returned parse_change goes on to line 187.  The lines are the user's, who
\* need not enter any.
SpecTUILive == SpecTUI /\ WF_vars(WriteSteps) /\ WF_vars(ChangeDone)

\* C13 as claimed: a line of words entered at the change prompt in which
\* the parser rejected a word leaves the transaction as it was.
C13_RejectedLineKeepsTx == rejects > 0 => current_tx = tx_before

\* C11 as claimed: where an account is expected, a word is accepted exactly
\* when it begins with a letter and goes on with letters, digits and ':'; every
\* other word is rejected with the account-name error.
C11_AccountGrammar ==
    (word # <<>> /\ pprev.next = "Account") =>
        IF /\ word[1] \in Letters
           /\ \A i \in 2..Len(word) : word[i] \in Letters \cup Digits \cup {":"}
        THEN result = "Ok"
        ELSE result = "Account name contains invalid character"

\* C12 as claimed: where a currency is expected, a word is accepted exactly
\* when it holds a character that is not a digit; only a word of digits alone
\* is rejected.
C12_Original ==
    (word # <<>> /\ pprev.next = "Currency") =>
        IF \E i \in 1..Len(word) : word[i] \notin Digits
        THEN result = "Ok"
        ELSE result = "Currency contains invalid characters"

\* C12 amended: where a currency is expected, a word is accepted exactly when
\* none of its characters is an ASCII digit; a word with a digit anywhere,
\* among other characters or not, is rejected with the currency error and the
\* parser stays where it was.
C12_CurrencyGrammar ==
    (word # <<>> /\ pprev.next = "Currency") =>
        IF \A i \in 1..Len(word) : word[i] \notin Digits
        THEN /\ result = "Ok"
             /\ parser.currency = Some(word)
             /\ parser.next = "Amount"
        ELSE /\ result = "Currency contains invalid characters"
             /\ parser = pprev

\* A word of digits and letters was fed where a currency was expected.
C12_Witness ==
    /\ pprev.next = "Currency"
    /\ word = <<"1", "a", "2", "b">>
    /\ result = "Currency contains invalid characters"
    /\ parser.next = "Currency"

----------------------------------------------------------------------------
(* Properties of the insertion into the ledger file                        *)

\* write_transaction has just returned Ok.
Written == wpc = "idle" /\ wres = "Ok"

\* The offsets of the header lines of b.
HeaderStarts(b) == {s \in LineStarts(b) : IsHeader(LineAt(b, s))}

\* The offsets of the lines of b that are the header line of t.
HeaderOf(b, t) ==
    {s \in LineStarts(b) : LineAt(b, s) = NaiveDate_fmt(t.date) \o <<" ">> \o as_bytes(t.description)}

\* The pair of date_ends of the greatest date that is not after day d.
GreatestUpTo(ends, d) ==
    ends[CHOOSE i \in 1..Len(ends) :
            /\ ends[i][1] <= d
            /\ \A j \in 1..Len(ends) : ends[j][1] <= d => ends[j][1] <= ends[i][1]]

\* C14 as claimed: when the tool has listed the entries of the file and the
\* transaction is dated before every one of them, the file is split at
\* offset 0: the new file is the text of the transaction, at most a newline,
\* and then the bytes the file had, intact.
C14_PredatingAtStart ==
    (/\ Written
     /\ oracle = "ok"
     /\ date_ends # <<>>
     /\ \A i \in 1..Len(date_ends) : wtx[1].date < date_ends[i][1])
    => /\ mid = 0
       /\ \E text \in to_string(wtx[1]), sep \in {<<>>, <<"\n">>} :
            file = text \o sep \o orig

\* C15 as claimed: when date_ends holds a date that is not after the date of
\* the transaction, the file is split exactly at the offset recorded for the
\* greatest such date.
C15_SplitAtOffset ==
    (/\ wpc \in {"create", "before", "tx", "after", "sync", "rename"}
     /\ \E i \in 1..Len(date_ends) : date_ends[i][1] <= wtx[1].date)
    => mid = GreatestUpTo(date_ends, wtx[1].date)[2]

\* C16 as claimed: from an empty ledger file, every insert completes (on an
\* empty file whose listing the tool has printed, write_transaction does not
\* panic), and once three transactions of three distinct dates are the whole
\* of the file, their entries stand in ascending order of date.
C16_ThreeDatesSorted ==
    /\ ~(orig = <<>> /\ inserted = <<>> /\ oracle = "ok" /\ wpc = "panicked")
    /\ (/\ Written
        /\ Len(inserted) = 3
        /\ Cardinality({inserted[i].date : i \in 1..3}) = 3
        /\ Cardinality(HeaderStarts(file)) = 3)
       => \A s1, s2 \in HeaderStarts(file) :
            s1 < s2 => DayOf(LineAt(file, s1)) < DayOf(LineAt(file, s2))

\* C17 as claimed: when two transactions of the same date have been written
\* one after the other, the tool each time either listing the file or
\* failing on a file it cannot read, the entry of the second stands after
\* the entry of the first and before every entry of a later date.
C17_SameDateOrder ==
    (/\ Written
     /\ Len(inserted) >= 2
     /\ (oracle = "ok" \/ ~JournalParses(orig))
     /\ inserted[Len(inserted)].date = inserted[Len(inserted) - 1].date
     /\ inserted[Len(inserted)] # inserted[Len(inserted) - 1])
    => \E p1 \in HeaderOf(file, inserted[Len(inserted) - 1]),
          p2 \in HeaderOf(file, inserted[Len(inserted)]) :
            /\ p1 < p2
            /\ \A q \in HeaderStarts(file) :
                DayOf(LineAt(file, q)) > inserted[Len(inserted)].date => p2 < q

\* C18 as claimed: a transaction is inserted into an empty ledger file whose
\* (empty) listing the tool has printed: write_transaction does not panic,
\* and when it has returned Ok the file is the text of the transaction,
\* from offset 0, and at most one newline after it.
C18_IntoEmptyFile ==
    (orig = <<>> /\ calls > 0 /\ oracle = "ok")
    => /\ wpc # "panicked"
       /\ Written =>
            \E text \in to_string(wtx[1]), sep \in {<<>>, <<"\n">>} : file = text \o sep

\* C19: from the call of write_transaction until it has returned Ok the
\* ledger file holds the bytes it held at the call, whether the call is
\* under way, has returned an error or has panicked, and the writes are in
\* the temporary file; once it has returned Ok the ledger file holds the
\* whole new text (the bytes before the split, the transaction, the bytes
\* after it, with their newlines) and the temporary file is gone.
C19_AtomicReplace ==
    /\ (calls > 0 /\ ~Written) => file = orig
    /\ wpc \in {"before", "tx", "after", "sync", "rename"} => tmp # None
    /\ Written =>
        /\ tmp = None
        /\ \E text \in to_string(wtx[1]) :
            file = before_tx \o newline_before \o text \o newline_after \o after_tx

\* A write failed when part of the new text was in the temporary file: the
\* ledger file, not empty, is as it was.
C19_Witness ==
    /\ wpc = "idle"
    /\ wres = "Err"
    /\ tmp # None
    /\ tmp[1] # <<>>
    /\ tmp[1] # file
    /\ file # <<>>
    /\ file = orig

\* C20 as claimed: when the run of the ledger tool fails (it cannot be run,
\* exits unsuccessfully, prints a text that is not UTF-8 or a malformed
\* line), write_transaction stops there with an error, the ledger file as it
\* was: it never goes on to read and split the file.
C20_OracleFailureAborts ==
    oracle \in {"spawn_error", "exit_failure", "non_utf8", "malformed"}
    => /\ wpc \in {"idle", "panicked"}
       /\ wres \in {"Err", "panic"}
       /\ file = orig

\* C21: when write_transaction has returned Ok, the bytes it read are the
\* bytes the file held at the call, and the new file is those bytes up to the
\* split, nothing or one newline, the text of the transaction, nothing or
\* one newline, and those bytes from the split on: every byte the file held
\* is there once, as it was and where it was among the others.
C21_SpliceKeepsBytes ==
    Written =>
        /\ buf = orig
        /\ mid \in 0..Len(orig)
        /\ \E s1 \in {<<>>, <<"\n">>}, s2 \in {<<>>, <<"\n">>}, text \in to_string(wtx[1]) :
                file = SubSeq(orig, 1, mid) \o s1 \o text \o s2
                       \o SubSeq(orig, mid + 1, Len(orig))

\* A transaction was written between two parts of the file, neither empty.
C21_Witness ==
    /\ Written
    /\ 0 < mid
    /\ mid < Len(orig)
    /\ Len(file) > Len(orig)
    /\ SubSeq(file, 1, mid) = SubSeq(orig, 1, mid)

\* The bytes of the file at the call from the split on.
OrigAfter == SubSeq(orig, mid + 1, Len(orig))

\* The new file is the bytes up to the split, s1, text, s2 and the bytes
\* from the split on.
Spliced(s1, text, s2) ==
    file = SubSeq(orig, 1, mid) \o s1 \o text \o s2 \o OrigAfter

\* C22 as claimed: in the file write_transaction has produced, a newline is
\* written after the text of the transaction only if the bytes after the
\* split do not begin with a newline, and the text with that newline ends in
\* one newline, never in two: one newline lies between the last posting line
\* and the first of the bytes after the split.
C22_Original ==
    Written =>
        \E s1 \in {<<>>, <<"\n">>}, s2 \in {<<>>, <<"\n">>}, text \in to_string(wtx[1]) :
            /\ Spliced(s1, text, s2)
            /\ s2 = <<"\n">> => (OrigAfter = <<>> \/ OrigAfter[1] # "\n")
            /\ LET rendered == text \o s2
               IN /\ rendered[Len(rendered)] = "\n"
                  /\ rendered[Len(rendered) - 1] # "\n"

\* C22 amended: in the file write_transaction has produced, the text of the
\* transaction ends with the newline of its last line; a newline is written
\* after it exactly when the bytes after the split are empty or do not begin
\* with a newline; so the text is always followed by a newline, its own
\* last newline and that one standing side by side, and when the newline is
\* written the text with it ends in two newlines.
C22_NewlineAfterEntry ==
    Written =>
        \E s1 \in {<<>>, <<"\n">>}, s2 \in {<<>>, <<"\n">>}, text \in to_string(wtx[1]) :
            /\ Spliced(s1, text, s2)
            /\ text[Len(text)] = "\n"
            /\ s2 = <<"\n">> <=> (OrigAfter = <<>> \/ OrigAfter[1] # "\n")
            /\ (s2 \o OrigAfter)[1] = "\n"
            /\ file[Len(SubSeq(orig, 1, mid) \o s1 \o text) + 1] = "\n"

\* A transaction was written before bytes that begin with no newline: its
\* text, ending in a newline, and one more newline stand before them.
C22_Witness ==
    /\ Written
    /\ OrigAfter # <<>>
    /\ OrigAfter[1] # "\n"
    /\ \E s1 \in {<<>>, <<"\n">>}, text \in to_string(wtx[1]) :
            /\ Spliced(s1, text, <<"\n">>)
            /\ text[Len(text)] = "\n"

----------------------------------------------------------------------------
(* Properties of the fold                                                  *)

\* The index of the last line of the date d among the lines taken.
LastOf(d) ==
    CHOOSE j \in 1..taken :
        /\ listing[j][1] = d
        /\ \A k \in (j + 1)..taken : listing[k][1] # d

\* C23: over a listing sorted by date, the lines of one date in the order of
\* their place, the fold holds one pair for each date among the lines it has
\* taken, the dates strictly ascending, and each pair carries the end offset
\* of the last line taken of its date; the whole listing taken, what it
\* holds is what get_date_end_positions returns.
C23_FoldLastPerDate ==
    /\ {collected[i][1] : i \in 1..Len(collected)} = {listing[j][1] : j \in 1..taken}
    /\ Len(collected) = Cardinality({listing[j][1] : j \in 1..taken})
    /\ \A i \in 1..(Len(collected) - 1) : collected[i][1] < collected[i + 1][1]
    /\ \A i \in 1..Len(collected) :
            collected[i][2] = listing[LastOf(collected[i][1])][2]
    /\ taken = Len(listing) => collected = fold(<<>>, listing)

\* The fold has taken a listing of three lines, two of them of one date.
C23_Witness ==
    /\ taken = 3
    /\ Len(listing) = 3
    /\ Len(collected) = 2
    /\ \E i \in 1..2 : listing[i][1] = listing[i + 1][1]

----------------------------------------------------------------------------
(* Properties of the controller                                            *)

\* The controller holds at most one transaction; when the line it handled
\* last is a header line that does not parse, it is at the header prompt with
\* no transaction; when that line is the empty line of the change prompt and
\* write_transaction has returned, Ok or an error, it is at the header prompt
\* with no transaction.
C24_OneTxDropped ==
    /\ Len(current_tx) <= 1
    /\ (tx_before = None /\ parse_transaction_header(line) = None)
        => (tpc = "prompt" /\ current_tx = None)
    /\ (tx_before # None /\ line = <<>> /\ tpc = "prompt") => current_tx = None

\* C24 as claimed: the controller holds at most one transaction, a header
\* line that does not parse leaves it at the header prompt with none, and the
\* empty line entered at the change prompt always brings it back to the
\* header prompt with no transaction, write_transaction having gone well or
\* not.
C24_DoneReturnsToHeader ==
    /\ []C24_OneTxDropped
    /\ (tpc = "writing") ~> (tpc = "prompt" /\ current_tx = None)

====
